---- MODULE Spec2Model ----
(***************************************************************************)
(* rest_file_command: named commands that upload a file to a REST endpoint. *)
(* The model follows custom_components/rest_file_command/__init__.py:       *)
(* the service registry (setup, reload), and the handler of one command     *)
(* cut at its suspension points (the request, the read of the body).        *)
(***************************************************************************)
EXTENDS Integers, Sequences, FiniteSets, Bags, TLC

VARIABLES
    services,   \* hass.services of DOMAIN: service name -> handler
    calls,      \* the calls of command handlers in flight: a bag of frames
    returned,   \* the frame of the call that has just ended, if any
    loading,    \* reload calls suspended in async_integration_yaml_config
    reloaded    \* the reload call that has just run to its end, if any

vars == <<services, calls, returned, loading, reloaded>>

\* ------------------------------------------------------------ bounds

\* command calls that can be in flight together
MaxInvocations == 2

\* reload calls that can be suspended together
MaxReloads == 1

\* ------------------------------------------------------------ constants

DEFAULT_TIMEOUT == 10

DEFAULT_METHOD == "post"

DEFAULT_VERIFY_SSL == TRUE

SERVICE_RELOAD == "reload"

CONF_FILE == "file"

CONTENT_TYPE == "Content-Type"

BAD_REQUEST == 400

\* Python's None, where the code holds a string or None
None == "None"

\* ------------------------------------------------------------ templates

\* A template is a sequence of parts: <<"lit", text>> or <<"var", name>>.
Lit(text) == <<"lit", text>>

Var(name) == <<"var", name>>

RECURSIVE RenderParts(_, _)
RenderParts(template, variables) ==
    IF template = <<>> THEN <<>>
    ELSE LET part == Head(template)
             text == IF part[1] = "lit" THEN part[2] ELSE variables[part[2]]
         IN  <<text>> \o RenderParts(Tail(template), variables)

\* the variables a template reads
TemplateVars(template) ==
    {template[k][2] : k \in {j \in DOMAIN template : template[j][1] = "var"}}

\* template.async_render(variables=..., parse_result=False): the rendered
\* string (its pieces in order), or a TemplateError on an unresolvable variable
async_render(template, variables) ==
    IF TemplateVars(template) \subseteq DOMAIN variables
    THEN [ok |-> TRUE, value |-> RenderParts(template, variables)]
    ELSE [ok |-> FALSE, value |-> <<>>]

\* ------------------------------------------------------------ configuration

UrlUpload == <<Lit("https://api.example.com/upload")>>

UrlHost == <<Lit("https://"), Var("host"), Lit("/upload")>>

\* command_config of a command after COMMAND_SCHEMA: the defaults filled in,
\* the optional keys absent
CfgPhoto ==
    [url |-> UrlUpload, method |-> DEFAULT_METHOD, timeout |-> DEFAULT_TIMEOUT,
     verify_ssl |-> DEFAULT_VERIFY_SSL]

CfgDoc ==
    [url |-> UrlHost, method |-> "put", timeout |-> 30, verify_ssl |-> FALSE,
     headers |-> << <<CONTENT_TYPE, <<Lit("text/plain")>> >>,
                    <<"X-Token", <<Var("token")>> >> >>,
     username |-> "u", password |-> "p", content_type |-> "image/jpeg"]

\* config[DOMAIN]: command name -> command_config
Config0 == ("send_photo" :> CfgPhoto) @@ ("send_doc" :> CfgDoc)

Config1 == ("send_photo" :> CfgDoc)

Config2 == ("send_doc" :> CfgDoc) @@ (SERVICE_RELOAD :> CfgPhoto)

\* the configurations the component is set up with
SetupConfigs == {Config0, Config2}

\* what async_integration_yaml_config returns: None when the configuration
\* cannot be parsed, else the configuration, with or without the DOMAIN key
ConfNone == [parsed |-> FALSE, has_domain |-> FALSE, commands |-> <<>>]

ConfNoDomain == [parsed |-> TRUE, has_domain |-> FALSE, commands |-> <<>>]

ConfOf(commands) == [parsed |-> TRUE, has_domain |-> TRUE, commands |-> commands]

LoadedConfs ==
    {ConfNone, ConfNoDomain} \cup {ConfOf(c) : c \in {Config0, Config1, Config2}}

\* ------------------------------------------------------------ registry

\* the handler async_setup registers under SERVICE_RELOAD
ReloadHandler == [kind |-> "reload"]

Get(dict, key, default) == IF key \in DOMAIN dict THEN dict[key] ELSE default

\* the closure async_register_rest_command builds for one command: what
\* async_service_handler captures
async_service_handler(command_config) ==
    [kind |-> "command",
     verify_ssl |-> command_config.verify_ssl,
     timeout |-> command_config.timeout,
     method |-> command_config.method,
     template_url |-> command_config.url,
     auth |-> IF "username" \in DOMAIN command_config
              THEN <<command_config.username, Get(command_config, "password", "")>>
              ELSE <<>>,
     template_headers |-> Get(command_config, "headers", <<>>),
     content_type |-> Get(command_config, "content_type", None)]

\* hass.services.async_register(DOMAIN, name, async_service_handler, ...)
async_register_rest_command(registry, name, command_config) ==
    [n \in DOMAIN registry \cup {name} |->
        IF n = name THEN async_service_handler(command_config) ELSE registry[n]]

\* RegisterAll leaving the loop after its first command
RegisterFirst(registry, commands, names) ==
    IF names = {} THEN registry
    ELSE LET name == CHOOSE n \in names : TRUE
         IN  async_register_rest_command(registry, name, commands[name])

RECURSIVE RegisterAll(_, _, _)
\* for name, command_config in commands.items(): register
RegisterAll(registry, commands, names) ==
    IF names = {} THEN registry
    ELSE LET name == CHOOSE n \in names : TRUE
         IN  RegisterAll(async_register_rest_command(registry, name, commands[name]),
                         commands, names \ {name})

\* async_setup: every command of the configuration, then the reload service
async_setup(commands) ==
    LET registered == RegisterAll(<<>>, commands, DOMAIN commands)
    IN  [n \in DOMAIN registered \cup {SERVICE_RELOAD} |->
            IF n = SERVICE_RELOAD THEN ReloadHandler ELSE registered[n]]

\* RemoveExisting removing nothing
RemoveNothing(registry) == registry

\* existing = async_services_for_domain(DOMAIN); every service but
\* SERVICE_RELOAD is removed
RemoveExisting(registry) ==
    [n \in DOMAIN registry \cap {SERVICE_RELOAD} |-> registry[n]]

\* ReloadServices without the test of conf against None: conf[DOMAIN] then
\* raises once the services are removed
ReloadUnchecked(registry, conf) ==
    IF ~conf.parsed \/ ~conf.has_domain
    THEN [services |-> RemoveExisting(registry),
          error |-> IF conf.parsed THEN "KeyError" ELSE "TypeError"]
    ELSE [services |-> RegisterAll(RemoveExisting(registry), conf.commands,
                                   DOMAIN conf.commands),
          error |-> ""]

\* reload_service_handler once the configuration is loaded: the registry it
\* leaves and the error it ends with ("" when it returns)
ReloadServices(registry, conf) ==
    IF ~conf.parsed THEN [services |-> registry, error |-> ""]
    ELSE LET removed == RemoveExisting(registry)
         IN  IF ~conf.has_domain
             THEN [services |-> removed, error |-> "KeyError"]
             ELSE [services |-> RegisterAll(removed, conf.commands,
                                            DOMAIN conf.commands),
                   error |-> ""]

\* ------------------------------------------------------------ environment

\* the files of the host
ExistingFiles == {"/config/www/image.jpg"}

\* Exists with the file check left out
ExistsAlways(file_path) == TRUE

\* os.path.exists(file_path)
Exists(file_path) == file_path \in ExistingFiles

\* service.data of a call: the file parameter (CALL_SCHEMA is not applied, so
\* it can be absent) and the caller's template variables
FileArgs == {<<>>} \cup {(CONF_FILE :> p) : p \in {"/missing.jpg", "/config/www/image.jpg"}}

VarArgs == {<<>>, ("host" :> "cam1"), ("host" :> "cam1") @@ ("token" :> "s3cr3t")}

ServiceData == {f @@ v : f \in FileArgs, v \in VarArgs}

\* what the transport answers: response.status, response.content_type
Statuses == {200, 400}

\* (application/octet-stream is what a response without the header reports)
ContentTypes ==
    {"application/json", "text/plain", "application/ld+json",
     "application/octet-stream"}

\* the bodies a response can carry
Bodies ==
    {[raw |-> "{\"id\": 1}", utf8 |-> TRUE, json |-> TRUE],
     [raw |-> "error", utf8 |-> TRUE, json |-> FALSE],
     [raw |-> "\\xff", utf8 |-> FALSE, json |-> FALSE]}

\* what the transport raises instead of answering
TransportFaults == {"TimeoutError", "ClientError"}

\* await response.json(): the bytes are decoded to text, then parsed
response_json(body) ==
    IF ~body.utf8 THEN [error |-> "UnicodeDecodeError", value |-> <<>>]
    ELSE IF ~body.json THEN [error |-> "JSONDecodeError", value |-> <<>>]
    ELSE [error |-> "", value |-> <<"object", body.raw>>]

\* await response.text(): the bytes are decoded to text
response_text(body) ==
    IF ~body.utf8 THEN [error |-> "UnicodeDecodeError", value |-> <<>>]
    ELSE [error |-> "", value |-> <<"str", body.raw>>]

\* ------------------------------------------------------------ the handler

\* how a call ends: not yet, return None, return {"content", "status"}, or an
\* exception (its type; for HomeAssistantError the translation key or the
\* message, and the placeholders)
Pending ==
    [kind |-> "pending", type |-> "", key |-> "", message |-> <<>>,
     request_url |-> <<>>, decoding_type |-> "", content |-> <<>>, status |-> 0]

ReturnNone == [Pending EXCEPT !.kind = "return_none"]

ReturnResult(content, status) ==
    [Pending EXCEPT !.kind = "return_result", !.content = content, !.status = status]

Raise(type) == [Pending EXCEPT !.kind = "raise", !.type = type]

\* raise HomeAssistantError(f"File not found: {file_path}")
FileNotFoundRaised(file_path) ==
    [Raise("HomeAssistantError") EXCEPT !.message = <<"File not found: ", file_path>>]

\* raise HomeAssistantError(translation_key=..., translation_placeholders=...)
Translated(key, request_url, decoding_type) ==
    [Raise("HomeAssistantError") EXCEPT !.key = key, !.request_url = request_url,
                                        !.decoding_type = decoding_type]

NoRequest ==
    [method |-> "", url |-> <<>>, file |-> None, auth |-> <<>>, headers |-> <<>>,
     timeout |-> 0, verify_ssl |-> TRUE]

NoResponse == [status |-> 0, content_type |-> ""]

\* no closure: the frame of no call
NoHandler == [kind |-> "none"]

\* the frame of one call of async_service_handler: handler is the closure the
\* call runs in; requests, reads, log and trace record what the call has
\* done, fault the exception raised in it
Idle ==
    [pc |-> "idle", handler |-> NoHandler, file_path |-> None,
     return_response |-> FALSE,
     request_url |-> <<>>, request |-> NoRequest, handle |-> "none",
     requests |-> 0, response |-> NoResponse, reading |-> "", reads |-> 0,
     fault |-> "", outcome |-> Pending, log |-> <<>>, trace |-> <<>>]

\* the frame at a raise or a return
Done(frame, outcome) == [frame EXCEPT !.pc = "done", !.outcome = outcome]

\* the frame in which error has just been raised
Raised(frame, error) == [frame EXCEPT !.fault = error]

RECURSIVE RenderHeaders(_, _, _)
\* for header_name, template_header in template_headers.items(): render;
\* rendered counts the templates rendered, the failing one included
RenderHeaders(template_headers, variables, headers) ==
    IF template_headers = <<>>
    THEN [ok |-> TRUE, headers |-> headers, rendered |-> 0]
    ELSE LET item == Head(template_headers)
             r == async_render(item[2], variables)
         IN  IF ~r.ok THEN [ok |-> FALSE, headers |-> headers, rendered |-> 1]
             ELSE LET rest == RenderHeaders(Tail(template_headers), variables,
                                            (item[1] :> r.value) @@ headers)
                  IN  [rest EXCEPT !.rendered = @ + 1]

\* OverrideContentType setting the header only where no template has set it
OverrideKeepsTemplated(headers, content_type) ==
    IF content_type \notin {None, ""}
    THEN headers @@ (CONTENT_TYPE :> <<content_type>>)
    ELSE headers

\* if content_type: headers[hdrs.CONTENT_TYPE] = content_type
OverrideContentType(headers, content_type) ==
    IF content_type \notin {None, ""}
    THEN (CONTENT_TYPE :> <<content_type>>) @@ headers
    ELSE headers

Events(n, event) == [k \in 1..n |-> event]

\* TransportError whose first handler does not match the timeout raised
TransportErrorNoTimeout(frame, error) ==
    IF error = "ClientError"
    THEN Done([frame EXCEPT !.log = Append(@, "error")],
              Translated("client_error", frame.request_url, ""))
    ELSE Done(frame, Raise(error))

\* TransportError sending the request once more after a first timeout
TransportErrorRetry(frame, error) ==
    IF error = "TimeoutError" /\ frame.requests = 1 /\ frame.pc = "request"
    THEN [frame EXCEPT !.requests = @ + 1, !.trace = @ \o <<"request">>]
    ELSE IF error = "TimeoutError"
    THEN Done(frame, Translated("timeout", frame.request_url, ""))
    ELSE IF error = "ClientError"
    THEN Done([frame EXCEPT !.log = Append(@, "error")],
              Translated("client_error", frame.request_url, ""))
    ELSE Done(frame, Raise(error))

\* except TimeoutError / except aiohttp.ClientError around the request; any
\* other exception leaves the handler as it is
TransportError(frame, error) ==
    IF error = "TimeoutError"
    THEN Done(frame, Translated("timeout", frame.request_url, ""))
    ELSE IF error = "ClientError"
    THEN Done([frame EXCEPT !.log = Append(@, "error")],
              Translated("client_error", frame.request_url, ""))
    ELSE Done(frame, Raise(error))

\* except (JSONDecodeError, AttributeError) / except UnicodeDecodeError around
\* the read of the body; any other exception reaches the outer handlers
DecodingError(frame, error) ==
    IF error \in {"JSONDecodeError", "AttributeError"}
    THEN Done(frame, Translated("decoding_error", frame.request_url, "JSON"))
    ELSE IF error = "UnicodeDecodeError"
    THEN Done(frame, Translated("decoding_error", frame.request_url, "text"))
    ELSE TransportError(frame, error)

\* Build rendering the headers before it checks the file
BuildHeadersFirst(handler, data, return_response, open_error) ==
    LET url == async_render(handler.template_url, data)
        file_path == Get(data, CONF_FILE, None)
        rendered == RenderHeaders(handler.template_headers, data, <<>>)
        headers == OverrideContentType(rendered.headers, handler.content_type)
        frame0 == [Idle EXCEPT !.handler = handler,
                               !.return_response = return_response,
                               !.trace = <<"render_url">>]
        frame1 == [frame0 EXCEPT !.request_url = url.value,
                                 !.trace = @ \o Events(rendered.rendered, "render_header")]
        frame2 == [frame1 EXCEPT !.file_path = file_path, !.trace = @ \o <<"exists">>]
        frame3 == [frame2 EXCEPT !.trace = @ \o <<"open">>]
    IN  IF ~url.ok THEN Done(Raised(frame0, "TemplateError"), Raise("TemplateError"))
        ELSE IF ~rendered.ok
        THEN Done(Raised(frame1, "TemplateError"), Raise("TemplateError"))
        ELSE IF file_path = None
        THEN Done(Raised(frame2, "TypeError"), Raise("TypeError"))
        ELSE IF ~Exists(file_path) THEN Done(frame2, FileNotFoundRaised(file_path))
        ELSE IF open_error # "" THEN TransportError(Raised(frame3, open_error), open_error)
        ELSE [frame3 EXCEPT
                !.pc = "request",
                !.handle = "open",
                !.requests = @ + 1,
                !.trace = @ \o <<"request">>,
                !.request = [method |-> handler.method, url |-> url.value,
                             file |-> file_path, auth |-> handler.auth,
                             headers |-> headers, timeout |-> handler.timeout,
                             verify_ssl |-> handler.verify_ssl]]

\* async_service_handler from its first line to the request: the URL, the
\* file check, the headers, the open, the request. open_error is what
\* open(file_path, "rb") raises ("" when it opens the file).
Build(handler, data, return_response, open_error) ==
    LET url == async_render(handler.template_url, data)
        file_path == Get(data, CONF_FILE, None)
        rendered == RenderHeaders(handler.template_headers, data, <<>>)
        headers == OverrideContentType(rendered.headers, handler.content_type)
        frame0 == [Idle EXCEPT !.handler = handler,
                               !.return_response = return_response,
                               !.trace = <<"render_url">>]
        frame1 == [frame0 EXCEPT !.request_url = url.value, !.file_path = file_path,
                                 !.trace = @ \o <<"exists">>]
        frame2 == [frame1 EXCEPT !.trace = @ \o Events(rendered.rendered, "render_header")]
        frame3 == [frame2 EXCEPT !.trace = @ \o <<"open">>]
    IN  IF ~url.ok THEN Done(Raised(frame0, "TemplateError"), Raise("TemplateError"))
        ELSE IF file_path = None
        THEN Done(Raised(frame1, "TypeError"), Raise("TypeError"))
        ELSE IF ~Exists(file_path) THEN Done(frame1, FileNotFoundRaised(file_path))
        ELSE IF ~rendered.ok
        THEN Done(Raised(frame2, "TemplateError"), Raise("TemplateError"))
        ELSE IF open_error # "" THEN TransportError(Raised(frame3, open_error), open_error)
        ELSE [frame3 EXCEPT
                !.pc = "request",
                !.handle = "open",
                !.requests = @ + 1,
                !.trace = @ \o <<"request">>,
                !.request = [method |-> handler.method, url |-> url.value,
                             file |-> file_path, auth |-> handler.auth,
                             headers |-> headers, timeout |-> handler.timeout,
                             verify_ssl |-> handler.verify_ssl]]

\* the level the status is logged at
StatusLevel(status) == IF status < BAD_REQUEST THEN "debug" ELSE "warning"

\* Respond raising for a status of BAD_REQUEST and above
RespondRaising(frame, status, content_type) ==
    LET got == [frame EXCEPT !.response = [status |-> status,
                                           content_type |-> content_type],
                             !.handle = "closed",
                             !.log = Append(@, StatusLevel(status)),
                             !.trace = @ \o <<"response">>]
        kind == IF content_type = "application/json" THEN "json" ELSE "text"
    IN  IF status >= BAD_REQUEST
        THEN Done(got, Translated("client_error", frame.request_url, ""))
        ELSE IF ~frame.return_response THEN Done(got, ReturnNone)
        ELSE [got EXCEPT !.pc = "read", !.reading = kind, !.reads = @ + 1,
                         !.trace = @ \o <<IF kind = "json" THEN "read_json"
                                           ELSE "read_text">>]

\* Respond reading the body whether or not the response is wanted
RespondReading(frame, status, content_type) ==
    LET got == [frame EXCEPT !.response = [status |-> status,
                                           content_type |-> content_type],
                             !.handle = "closed",
                             !.log = Append(@, StatusLevel(status)),
                             !.trace = @ \o <<"response">>]
        kind == IF content_type = "application/json" THEN "json" ELSE "text"
    IN  [got EXCEPT !.pc = "read", !.reading = kind, !.reads = @ + 1,
                    !.trace = @ \o <<IF kind = "json" THEN "read_json"
                                      ELSE "read_text">>]

\* Respond taking every content type that names JSON for JSON
RespondJsonSuffix(frame, status, content_type) ==
    LET got == [frame EXCEPT !.response = [status |-> status,
                                           content_type |-> content_type],
                             !.handle = "closed",
                             !.log = Append(@, StatusLevel(status)),
                             !.trace = @ \o <<"response">>]
        kind == IF content_type \in {"application/json", "application/ld+json"}
                THEN "json" ELSE "text"
    IN  IF ~frame.return_response THEN Done(got, ReturnNone)
        ELSE [got EXCEPT !.pc = "read", !.reading = kind, !.reads = @ + 1,
                         !.trace = @ \o <<IF kind = "json" THEN "read_json"
                                           ELSE "read_text">>]

\* the response has arrived: the status is logged; without return_response
\* the handler returns None, else it starts the read the content type selects.
\* The transport has consumed the multipart stream and closed its file.
Respond(frame, status, content_type) ==
    LET got == [frame EXCEPT !.response = [status |-> status,
                                           content_type |-> content_type],
                             !.handle = "closed",
                             !.log = Append(@, StatusLevel(status)),
                             !.trace = @ \o <<"response">>]
        kind == IF content_type = "application/json" THEN "json" ELSE "text"
    IN  IF ~frame.return_response THEN Done(got, ReturnNone)
        ELSE [got EXCEPT !.pc = "read", !.reading = kind, !.reads = @ + 1,
                         !.trace = @ \o <<IF kind = "json" THEN "read_json"
                                           ELSE "read_text">>]

\* the request raises error; sent tells whether the transport had consumed
\* the multipart stream, whose file it then has closed
Abort(frame, error, sent) ==
    TransportError([Raised(frame, error) EXCEPT
                      !.handle = IF sent THEN "closed" ELSE @],
                   error)

\* the read of the body has ended with the body: it is decoded as started
Decode(frame, body) ==
    LET decoded == IF frame.reading = "json" THEN response_json(body)
                   ELSE response_text(body)
    IN  IF decoded.error # ""
        THEN DecodingError(Raised(frame, decoded.error), decoded.error)
        ELSE Done(frame, ReturnResult(decoded.value, frame.response.status))

\* ------------------------------------------------------------ the system

\* what open(file_path, "rb") can raise after the file check has passed: the
\* file was removed meanwhile, is unreadable or is a directory
OpenErrors == {"", "OSError"}

NoReload == [state |-> "none", conf |-> ConfNone, before |-> <<>>, error |-> ""]

\* no call has an outcome its caller has not been handed yet
Delivered == reloaded.state = "none" /\ returned.pc = "idle"

\* the frames of the calls in flight
InFlight == BagToSet(calls)

Init ==
    /\ services \in {async_setup(c) : c \in SetupConfigs}
    /\ calls = EmptyBag
    /\ returned = Idle
    /\ loading = 0
    /\ reloaded = NoReload

\* Advance with the rendered URL kept in one place that every call in flight
\* reads
AdvanceShared(old, new) ==
    LET others == BagOfAll(LAMBDA g : [g EXCEPT !.request_url = new.request_url],
                           calls (-) SetToBag({old}))
    IN  IF new.pc = "done"
        THEN /\ calls' = others
             /\ returned' = new
        ELSE /\ calls' = others (+) SetToBag({new})
             /\ returned' = returned

\* the call with frame old goes on to frame new: it stays in flight, or it
\* has ended and its outcome is on its way to the caller
Advance(old, new) ==
    IF new.pc = "done"
    THEN /\ calls' = calls (-) SetToBag({old})
         /\ returned' = new
    ELSE /\ calls' = (calls (-) SetToBag({old})) (+) SetToBag({new})
         /\ returned' = returned

\* Call removing the command from the registry when its handler raises
CallUnregistering(name, data, return_response, open_error) ==
    LET frame == Build(services[name], data, return_response, open_error)
    IN  /\ Delivered
        /\ BagCardinality(calls) < MaxInvocations
        /\ name \in DOMAIN services
        /\ services[name].kind = "command"
        /\ Advance(Idle, frame)
        /\ services' = IF frame.outcome.kind = "raise"
                       THEN [n \in DOMAIN services \ {name} |-> services[n]]
                       ELSE services
        /\ UNCHANGED <<loading, reloaded>>

\* a registered command is called: its handler runs up to the request
Call(name, data, return_response, open_error) ==
    /\ Delivered
    /\ BagCardinality(calls) < MaxInvocations
    /\ name \in DOMAIN services
    /\ services[name].kind = "command"
    /\ Advance(Idle, Build(services[name], data, return_response, open_error))
    /\ UNCHANGED <<services, loading, reloaded>>

\* the transport answers the request of a call
TransportResponds(frame, status, content_type) ==
    /\ Delivered
    /\ frame.pc = "request"
    /\ Advance(frame, Respond(frame, status, content_type))
    /\ UNCHANGED <<services, loading, reloaded>>

\* the transport raises instead; sent tells whether it had consumed the
\* multipart stream, whose file it then has closed
TransportFails(frame, error, sent) ==
    /\ Delivered
    /\ frame.pc = "request"
    /\ Advance(frame, Abort(frame, error, sent))
    /\ UNCHANGED <<services, loading, reloaded>>

\* the body of the response has been read
BodyRead(frame, body) ==
    /\ Delivered
    /\ frame.pc = "read"
    /\ Advance(frame, Decode(frame, body))
    /\ UNCHANGED <<services, loading, reloaded>>

\* the transport raises during the read of the body
ReadFails(frame, error) ==
    /\ Delivered
    /\ frame.pc = "read"
    /\ Advance(frame, DecodingError(Raised(frame, error), error))
    /\ UNCHANGED <<services, loading, reloaded>>

\* the caller of the call that has ended is handed its outcome
Return ==
    /\ returned.pc = "done"
    /\ returned' = Idle
    /\ UNCHANGED <<services, calls, loading, reloaded>>

\* the reload service is called: reload_service_handler awaits the
\* configuration
CallReload ==
    /\ Delivered
    /\ SERVICE_RELOAD \in DOMAIN services
    /\ services[SERVICE_RELOAD].kind = "reload"
    /\ loading < MaxReloads
    /\ loading' = loading + 1
    /\ UNCHANGED <<services, calls, returned, reloaded>>

\* ConfigLoaded cancelling the calls in flight of the services it removes
ConfigLoadedAborting(conf) ==
    /\ Delivered
    /\ loading > 0
    /\ loading' = loading - 1
    /\ LET end == ReloadServices(services, conf)
       IN  /\ services' = end.services
           /\ reloaded' = [state |-> "done", conf |-> conf, before |-> services,
                           error |-> end.error]
           /\ calls' = IF end.services # services THEN EmptyBag ELSE calls
    /\ UNCHANGED returned

\* the configuration is loaded: reload_service_handler runs to its end
ConfigLoaded(conf) ==
    /\ Delivered
    /\ loading > 0
    /\ loading' = loading - 1
    /\ LET end == ReloadServices(services, conf)
       IN  /\ services' = end.services
           /\ reloaded' = [state |-> "done", conf |-> conf, before |-> services,
                           error |-> end.error]
    /\ UNCHANGED <<calls, returned>>

\* the caller of the reload is handed its outcome
ReloadReturn ==
    /\ reloaded.state = "done"
    /\ reloaded' = NoReload
    /\ UNCHANGED <<services, calls, returned, loading>>

Next ==
    \/ \E name \in DOMAIN services, data \in ServiceData,
          return_response \in BOOLEAN, open_error \in OpenErrors :
            Call(name, data, return_response, open_error)
    \/ \E frame \in InFlight, status \in Statuses, content_type \in ContentTypes :
            TransportResponds(frame, status, content_type)
    \/ \E frame \in InFlight, error \in TransportFaults, sent \in BOOLEAN :
            TransportFails(frame, error, sent)
    \/ \E frame \in InFlight, body \in Bodies : BodyRead(frame, body)
    \/ \E frame \in InFlight, error \in TransportFaults : ReadFails(frame, error)
    \/ Return
    \/ CallReload
    \/ \E conf \in LoadedConfs : ConfigLoaded(conf)
    \/ ReloadReturn

Spec == Init /\ [][Next]_vars

\* ------------------------------------------------------------ properties

\* the frames of all calls: those in flight and the one that has just ended
Frames == InFlight \cup {returned}

\* the frames of the calls that have ended
Ended == {f \in {returned} : f.pc = "done"}

\* the kind of failure of the taxonomy an outcome is ("" when it is none)
Kind(outcome) ==
    IF outcome.kind # "raise" THEN ""
    ELSE IF outcome.type = "TemplateError" THEN "ValidationError"
    ELSE IF outcome.type # "HomeAssistantError" THEN "Unclassified"
    ELSE IF outcome.key = "timeout" THEN "Timeout"
    ELSE IF outcome.key = "client_error" THEN "ClientError"
    ELSE IF outcome.key = "decoding_error" THEN "DecodingError"
    ELSE IF outcome.message # <<>> /\ outcome.message[1] = "File not found: "
    THEN "FileNotFound"
    ELSE "Unclassified"

Has(trace, event) == \E k \in DOMAIN trace : trace[k] = event

\* the file check of the call was made on a path that does not exist
CheckedMissing(f) ==
    /\ Has(f.trace, "exists")
    /\ f.file_path # None
    /\ f.file_path \notin ExistingFiles

\* C1: a call whose file_path does not exist when it is checked ends in the
\* File-not-found failure, which carries the path, and the transport gets no
\* request of that call.
C1_MissingFileNoRequest ==
    \A f \in Frames :
        CheckedMissing(f) =>
            /\ f.pc = "done"
            /\ Kind(f.outcome) = "FileNotFound"
            /\ f.outcome.message[2] = f.file_path
            /\ f.requests = 0
            /\ ~Has(f.trace, "request")
            /\ f.request = NoRequest

C1_Witness ==
    \E f \in Ended :
        /\ CheckedMissing(f)
        /\ f.file_path = "/missing.jpg"
        /\ Kind(f.outcome) = "FileNotFound"

\* C2: in every state in which a call has ended, the file handle the call
\* opened is closed.
C2_HandleReleased == \A f \in Ended : f.handle # "open"

\* the registry a reload leaves, from the registry before it and the
\* configuration loaded: unchanged when the configuration is not parsed, else
\* the reload entry and exactly the commands of the configuration
PostReload(before, conf) ==
    IF ~conf.parsed THEN before
    ELSE [n \in (DOMAIN before \cap {SERVICE_RELOAD}) \cup DOMAIN conf.commands |->
            IF n \in DOMAIN conf.commands
            THEN async_service_handler(conf.commands[n])
            ELSE before[n]]

\* C3: every step that changes the registry is the end of a reload and takes
\* the registry from the whole set before the reload to the whole set after
\* it: no state in between can be looked up.
C3_ReloadAtomic ==
    [][services' # services =>
          /\ reloaded'.state = "done"
          /\ reloaded'.before = services
          /\ services' = PostReload(services, reloaded'.conf)]_vars

C3_Witness ==
    /\ reloaded.state = "done"
    /\ reloaded.conf = ConfOf(Config1)
    /\ services # reloaded.before
    /\ services = PostReload(reloaded.before, reloaded.conf)
    /\ calls # EmptyBag

\* C4: a reload whose configuration cannot be parsed leaves the registry as it
\* was and does not fail.
C4_UnparsedReloadNoOp ==
    (reloaded.state = "done" /\ ~reloaded.conf.parsed) =>
        /\ services = reloaded.before
        /\ reloaded.error = ""

C4_Witness ==
    /\ reloaded.state = "done"
    /\ ~reloaded.conf.parsed
    /\ DOMAIN services = {"send_photo", "send_doc", SERVICE_RELOAD}

\* the reload has ended on a configuration with a set of commands
ReloadedCommands ==
    reloaded.state = "done" /\ reloaded.conf.parsed /\ reloaded.conf.has_domain

\* C5: when a reload with a parsed set of commands has ended, the registered
\* names are the reload entry and the names of the new set, every command of
\* the new set is registered with its new definition, and no other command
\* registered before can be looked up.
C5_ReloadReplaces ==
    ReloadedCommands =>
        LET new == reloaded.conf.commands
        IN  /\ DOMAIN services = {SERVICE_RELOAD} \cup DOMAIN new
            /\ \A n \in DOMAIN new : services[n] = async_service_handler(new[n])
            /\ \A n \in DOMAIN reloaded.before :
                    (n # SERVICE_RELOAD /\ n \notin DOMAIN new) => n \notin DOMAIN services

C5_Witness ==
    /\ ReloadedCommands
    /\ "send_doc" \in DOMAIN reloaded.before
    /\ "send_doc" \notin DOMAIN services
    /\ "send_photo" \in DOMAIN reloaded.before
    /\ services["send_photo"] = async_service_handler(CfgDoc)
    /\ reloaded.before["send_photo"] = async_service_handler(CfgPhoto)

\* the call got a response with a status of BAD_REQUEST or above
SoftFailure(f) == f.response.status >= BAD_REQUEST

\* C6 as claimed: a call that got a status of 400 or above does not fail,
\* whatever the content type and the body: it returns a result with that
\* status when the response is wanted and nothing when it is not.
C6_SoftFailureAlways ==
    \A f \in Ended :
        SoftFailure(f) =>
            IF f.return_response
            THEN f.outcome = ReturnResult(f.outcome.content, f.response.status)
            ELSE f.outcome = ReturnNone

\* C6 as amended: a status of 400 or above is logged as a warning and never
\* fails the call by itself: the call returns nothing when the response is
\* not wanted; when it is wanted the call returns a result with that status,
\* unless the read or the decoding of the body fails, and then it ends in the
\* failure of that read.
C6_SoftFailure ==
    \A f \in Ended :
        SoftFailure(f) =>
            /\ f.log[1] = "warning"
            /\ IF f.return_response
               THEN \/ f.outcome = ReturnResult(f.outcome.content, f.response.status)
                    \/ /\ f.outcome.kind = "raise"
                       /\ f.reads = 1
                       /\ f.fault # ""
                       /\ Kind(f.outcome) \in {"DecodingError", "Timeout", "ClientError"}
               ELSE f.outcome = ReturnNone

C6_Witness ==
    \E f \in Ended :
        /\ f.response.status = BAD_REQUEST
        /\ f.return_response
        /\ f.outcome.kind = "return_result"
        /\ f.outcome.status = BAD_REQUEST

\* C7: a call made without return_response never reads the body of the
\* response, whatever the status and the content type: once the response has
\* arrived the call has returned None.
C7_NoReadUnlessWanted ==
    \A f \in Frames :
        ~f.return_response =>
            /\ f.reads = 0
            /\ f.reading = ""
            /\ ~Has(f.trace, "read_json") /\ ~Has(f.trace, "read_text")
            /\ Has(f.trace, "response") => (f.pc = "done" /\ f.outcome = ReturnNone)

C7_Witness ==
    \E f \in Ended :
        /\ ~f.return_response
        /\ f.response = [status |-> BAD_REQUEST, content_type |-> "application/json"]
        /\ f.outcome = ReturnNone
        /\ f.reads = 0

\* the five kinds of failure of the taxonomy
Classified == {"ValidationError", "FileNotFound", "Timeout", "ClientError", "DecodingError"}

\* C8: every failure a call ends in is one of the five kinds, and a failure
\* before the request is sent is a ValidationError or a FileNotFound, also
\* when the file parameter is absent or the file cannot be opened.
C8_FailuresClassified ==
    \A f \in Ended :
        f.outcome.kind = "raise" =>
            /\ Kind(f.outcome) \in Classified
            /\ f.requests = 0 => Kind(f.outcome) \in {"ValidationError", "FileNotFound"}

\* C9: a decoding failure carries the request URL and the kind of decoding
\* that was attempted: "JSON" when the content type is application/json,
\* "text" otherwise, whatever the decoding raised.
C9_DecodingKindAttempted ==
    \A f \in Ended :
        Kind(f.outcome) = "DecodingError" =>
            /\ f.outcome.request_url = f.request.url
            /\ f.outcome.decoding_type =
                   IF f.response.content_type = "application/json" THEN "JSON"
                   ELSE "text"

\* C10: a timeout raised by the transport, while sending or while reading
\* the response, ends the call in Timeout and any other client error in
\* ClientError; both carry the request URL and the call returns no result.
C10_TransportFaults ==
    \A f \in Ended :
        /\ (f.fault = "TimeoutError" /\ f.requests = 1) =>
               /\ Kind(f.outcome) = "Timeout"
               /\ f.outcome.request_url = f.request.url
               /\ f.outcome.content = <<>>
        /\ (f.fault = "ClientError" /\ f.requests = 1) =>
               /\ Kind(f.outcome) = "ClientError"
               /\ f.outcome.request_url = f.request.url
               /\ f.outcome.content = <<>>

C10_Witness ==
    \E f \in Ended, g \in InFlight :
        /\ f.fault = "TimeoutError"
        /\ f.reads = 1
        /\ Kind(f.outcome) = "Timeout"
        /\ f.outcome.request_url = <<"https://", "cam1", "/upload">>
        /\ g.pc = "request"

\* how often an event is in a trace
Count(trace, event) == Cardinality({k \in DOMAIN trace : trace[k] = event})

\* the build phase of the call has succeeded: the file has been opened
Built(f) == f.handle # "none"

\* C11: a call sends at most one request, and exactly one when its build
\* phase succeeds; a fault or a status of 400 and above ends the call
\* without another request.
C11_OneRequest ==
    \A f \in Frames :
        /\ f.requests = Count(f.trace, "request")
        /\ f.requests = IF Built(f) THEN 1 ELSE 0
        /\ (f.fault # "" \/ SoftFailure(f)) =>
               /\ f.requests <= 1
               /\ f.fault # "" => f.pc = "done"

C11_Witness ==
    \E f \in Ended :
        /\ f.fault = "TimeoutError"
        /\ f.requests = 1
        /\ f.reads = 0
        /\ Kind(f.outcome) = "Timeout"

\* the place of a step in a call: build (1 to 4), send (5, 6), decode (7)
Rank(event) ==
    CASE event = "render_url" -> 1
      [] event = "exists" -> 2
      [] event = "render_header" -> 3
      [] event = "open" -> 4
      [] event = "request" -> 5
      [] event = "response" -> 6
      [] event \in {"read_json", "read_text"} -> 7

\* C12: the steps of a call come in the order build, send, decode: the
\* request follows the rendering of the URL, the file check, the rendering of
\* every header and the open; the body is read only after the request has
\* been sent and answered; no step is taken again, none out of its turn.
C12_PhaseOrder ==
    \A f \in Frames :
        f.pc # "idle" =>
            /\ f.trace[1] = "render_url"
            /\ \A k \in 1..(Len(f.trace) - 1) :
                   \/ Rank(f.trace[k]) < Rank(f.trace[k + 1])
                   \/ f.trace[k] = "render_header" /\ f.trace[k + 1] = "render_header"
            /\ Has(f.trace, "request") =>
                   /\ Has(f.trace, "exists")
                   /\ Count(f.trace, "render_header") = Len(f.handler.template_headers)
                   /\ Has(f.trace, "open")
            /\ Has(f.trace, "response") => Has(f.trace, "request")
            /\ f.reads > 0 =>
                   /\ Has(f.trace, "response")
                   /\ Rank(f.trace[Len(f.trace)]) = 7
            /\ f.pc = "request" => f.trace[Len(f.trace)] = "request"

C12_Witness ==
    \E f \in Ended :
        /\ f.trace = <<"render_url", "exists", "render_header", "render_header",
                       "open", "request", "response", "read_json">>
        /\ f.outcome.kind = "return_result"

\* the decoding the content type of the response asks for
Expected(content_type) == IF content_type = "application/json" THEN "json" ELSE "text"

\* C13: with return_response the content type alone selects the decoding:
\* exactly application/json is decoded as JSON, every other content type as
\* text; a call that succeeds returns the decoded value with the status of
\* the response.
C13_DecodeDispatch ==
    \A f \in Frames :
        (f.return_response /\ f.response # NoResponse) =>
            LET kind == Expected(f.response.content_type)
            IN  /\ f.reading = kind
                /\ Has(f.trace, "read_json") <=> kind = "json"
                /\ Has(f.trace, "read_text") <=> kind = "text"
                /\ f.fault = "JSONDecodeError" => kind = "json"
                /\ f.outcome.kind = "return_result" =>
                       /\ f.outcome.status = f.response.status
                       /\ f.outcome.content[1] = IF kind = "json" THEN "object" ELSE "str"

C13_Witness ==
    \E f \in Ended :
        /\ f.response = [status |-> 200, content_type |-> "application/ld+json"]
        /\ f.outcome = ReturnResult(<<"str", "{\"id\": 1}">>, 200)

\* the names of the templated headers of a closure
HeaderNames(handler) ==
    {handler.template_headers[k][1] : k \in DOMAIN handler.template_headers}

\* the closure has a templated Content-Type header and a content type set
BothContentTypes(handler) ==
    /\ CONTENT_TYPE \in HeaderNames(handler)
    /\ handler.content_type \notin {None, ""}

\* C14: when a command has a templated Content-Type header and a content
\* type set, the request carries the content type set, as its one
\* Content-Type header, and every other templated header as rendered.
C14_ContentTypeOverride ==
    \A f \in Frames :
        (f.requests = 1 /\ BothContentTypes(f.handler)) =>
            /\ DOMAIN f.request.headers = HeaderNames(f.handler)
            /\ f.request.headers[CONTENT_TYPE] = <<f.handler.content_type>>

C14_Witness ==
    \E f \in InFlight :
        /\ f.pc = "request"
        /\ BothContentTypes(f.handler)
        /\ f.handler.template_headers[1] = <<CONTENT_TYPE, <<Lit("text/plain")>> >>
        /\ f.request.headers[CONTENT_TYPE] = <<"image/jpeg">>

\* frame f is a frame of a call that runs alone: some call data and some
\* result of open take the closure of f to it, through the response f has got
Alone(f) ==
    \E data \in ServiceData, open_error \in OpenErrors :
        LET b == Build(f.handler, data, f.return_response, open_error)
            r == Respond(b, f.response.status, f.response.content_type)
        IN  \/ f = b
            \/ /\ b.pc = "request"
               /\ f.response = NoResponse
               /\ \E error \in TransportFaults, sent \in BOOLEAN :
                      f = Abort(b, error, sent)
            \/ /\ b.pc = "request"
               /\ f.response # NoResponse
               /\ \/ f = r
                  \/ /\ r.pc = "read"
                     /\ \/ \E body \in Bodies : f = Decode(r, body)
                        \/ \E error \in TransportFaults :
                              f = DecodingError(Raised(r, error), error)

\* a step leaves every frame but one as it is
OneFrameStep ==
    /\ BagCardinality(calls (-) calls') <= 1
    /\ BagCardinality(calls' (-) calls) <= 1
    /\ returned' # returned => BagCardinality(calls' (-) calls) = 0

\* C15: calls in flight together are independent: the request and the
\* outcome of each are those of a call that runs alone in the same closure
\* with the same data, file and response, and a step of one call leaves the
\* frame of every other call as it is.
C15_Independent ==
    /\ [](\A f \in Frames : f.pc # "idle" => Alone(f))
    /\ [][OneFrameStep]_vars

C15_Witness ==
    /\ returned.pc = "done"
    /\ returned.outcome.kind = "return_result"
    /\ \E g \in InFlight : /\ g.handler # returned.handler
                            /\ g.request_url # returned.request_url
                            /\ g.pc = "read"

\* a step of a call: a frame is made, moves on, ends or is handed over
CallStep == calls' # calls \/ returned' # returned

\* a step in which reload_service_handler runs from the loaded configuration
\* to its end
ReloadStep ==
    /\ loading' = loading - 1
    /\ reloaded'.state = "done"
    /\ services' = ReloadServices(services, reloaded'.conf).services

\* C16: the registry changes only where services are registered and removed,
\* which after setup is the reload: no step of a call, however the call
\* ends, changes the registered names or the closures they are bound to.
C16_RegistryFrame ==
    [][/\ CallStep => services' = services
       /\ services' # services => ReloadStep]_vars

C16_Witness ==
    /\ returned.pc = "done"
    /\ returned.outcome.kind = "raise"
    /\ \E g \in InFlight : g.pc = "read"
    /\ services \in {async_setup(c) : c \in SetupConfigs}
    /\ \E name \in DOMAIN services : services[name] = returned.handler

\* the call data name a file that does not exist
MissingFile(data) ==
    /\ CONF_FILE \in DOMAIN data
    /\ ~Exists(data[CONF_FILE])

\* the URL template, a header template of the closure fails on the data
UrlFails(handler, data) == ~async_render(handler.template_url, data).ok

HeaderFails(handler, data) ==
    ~RenderHeaders(handler.template_headers, data, <<>>).ok

\* frame f is where a call with the data has got to before any request
CalledWith(f, data) ==
    \E open_error \in OpenErrors :
        f = Build(f.handler, data, f.return_response, open_error)

\* C17: the file is checked after the URL is rendered and before any header
\* is: a call with a missing file and a failing header template ends in the
\* File-not-found failure with no header rendered, and a call with a missing
\* file and a failing URL template ends in the template's own failure with
\* no file checked.
C17_FileCheckOrder ==
    \A f \in Frames : \A data \in ServiceData :
        (f.pc # "idle" /\ MissingFile(data) /\ CalledWith(f, data)) =>
            /\ (~UrlFails(f.handler, data) /\ HeaderFails(f.handler, data)) =>
                    /\ f.pc = "done"
                    /\ Kind(f.outcome) = "FileNotFound"
                    /\ Has(f.trace, "exists")
                    /\ ~Has(f.trace, "render_header")
            /\ UrlFails(f.handler, data) =>
                    /\ f.pc = "done"
                    /\ Kind(f.outcome) = "ValidationError"
                    /\ f.trace = <<"render_url">>

C17_Witness ==
    LET data == (CONF_FILE :> "/missing.jpg") @@ ("host" :> "cam1")
    IN  /\ returned.pc = "done"
        /\ CalledWith(returned, data)
        /\ ~UrlFails(returned.handler, data)
        /\ HeaderFails(returned.handler, data)
        /\ Kind(returned.outcome) = "FileNotFound"
        /\ ~Has(returned.trace, "render_header")

\* C18: after setup and after every reload the name reload is registered
\* and bound to the reload handler, whatever the configuration, one with a
\* command named reload included.
C18_ReloadReserved ==
    /\ SERVICE_RELOAD \in DOMAIN services
    /\ services[SERVICE_RELOAD] = ReloadHandler

\* the request of frame f is wholly that of the closure of f: method, auth,
\* timeout and TLS setting are the closure's, URL and headers are rendered
\* from its templates, its content type set over them
UsesDefinition(f) ==
    /\ f.request.method = f.handler.method
    /\ f.request.auth = f.handler.auth
    /\ f.request.timeout = f.handler.timeout
    /\ f.request.verify_ssl = f.handler.verify_ssl
    /\ f.request.url = f.request_url
    /\ \E data \in ServiceData :
          LET url == async_render(f.handler.template_url, data)
              rendered == RenderHeaders(f.handler.template_headers, data, <<>>)
          IN  /\ url.ok /\ f.request.url = url.value
              /\ rendered.ok
              /\ f.request.headers =
                    OverrideContentType(rendered.headers, f.handler.content_type)
              /\ f.request.file = Get(data, CONF_FILE, None)

\* the frames a step takes out of, puts into the calls in flight or hands
\* to the caller
Left == BagToSet(calls (-) calls')

Entered ==
    BagToSet(calls' (-) calls) \cup
        (IF returned' # returned /\ returned'.pc = "done" THEN {returned'} ELSE {})

\* a call that moves on keeps its closure and its request
KeepsDefinition ==
    \A f \in Left : \A g \in Entered :
        f.pc # "idle" => (g.handler = f.handler /\ g.request = f.request)

\* C19: a call in flight when a reload runs ends with the whole definition it
\* was called with: the reload leaves every frame in flight as it is, and
\* each later step of the call keeps its closure and its request, whether or
\* not the name of the command is still bound to that closure.
C19_InFlightKeepsDefinition ==
    /\ [](\A f \in Frames : f.requests = 1 => UsesDefinition(f))
    /\ [][services' # services => (calls' = calls /\ returned' = returned)]_vars
    /\ [][KeepsDefinition]_vars

C19_Witness ==
    /\ returned.pc = "done"
    /\ returned.outcome.kind = "return_result"
    /\ UsesDefinition(returned)
    /\ \A name \in DOMAIN services : services[name] # returned.handler
    /\ \E name \in DOMAIN services :
          /\ services[name].kind = "command"
          /\ services[name].template_url # returned.handler.template_url

====
